---- MODULE Spec2Model ----
(***************************************************************************)
(* Model of the 8D audio converter (src/another.py) and of the Flask       *)
(* /convert handler that drives it (src/app.py).                           *)
(*                                                                         *)
(* Numbers.  The code computes in floating point; the model computes the   *)
(* same expressions in exact fixed point:                                  *)
(*   pan_speed     tenths of a Hz          (0.5 Hz  is 5)                  *)
(*   depth         hundredths              (1.0     is 100)                *)
(*   reverb_delay  milliseconds            (as in the code)                *)
(*   reverb_decay  tenths                  (0.3     is 3)                  *)
(*   samples       int16 units, i.e. the float value times 32767           *)
(* and every later buffer carries the denominator its stage introduces     *)
(* (10000 after panning, a further 20 after the reverb).  A normalised     *)
(* sample is the fraction [num, den]; den = 0 is the NaN that 0.0/0.0      *)
(* yields in numpy.                                                        *)
(***************************************************************************)
EXTENDS Integers, Sequences, FiniteSets, TLC

VARIABLES
    config,      \* the AudioConfig object held by the converter (self.config)
    converter,   \* "none" | "ready": whether Audio8DConverter(...) returned
    op,          \* the last call made by the client
    pc,          \* position inside convert_file
    audio,       \* the decoded AudioSegment: channels, frame_rate, samples
    audio_data,  \* the working buffer of convert_file: a sequence of frames
    output,      \* frames written to output_path ("none" while nothing is)
    err,         \* message of the exception the last call raised ("" if none)
    \* the web service (src/app.py):
    clock,       \* datetime.now(), in whole seconds
    uploads,     \* the files of UPLOAD_FOLDER: path -> content
    processed,   \* the files of PROCESSED_FOLDER: path -> content
    req,         \* per request: the locals of convert_audio
    response     \* per request: what the client received

vars == <<config, converter, op, pc, audio, audio_data, output, err>>
wvars == <<clock, uploads, processed, req, response>>

---------------------------------------------------------------------------
(* Bounds of the model *)

\* Longest decoded input, in frames.
MaxFrames == 3

\* Values a client passes for each parameter: both range ends, a value
\* inside, and values just outside.
PanSpeeds == {0, 5, 20, 21}
Depths == {-5, 0, 100, 105}
ReverbDelays == {0, 50, 100, 101}
ReverbDecays == {-1, 3, 10, 11}

Configs ==
    [pan_speed : PanSpeeds, depth : Depths,
     reverb_delay : ReverbDelays, reverb_decay : ReverbDecays]

\* Frame rates of the decoded input.  They are low so that a buffer of
\* MaxFrames frames spans a visible part of a pan cycle and of the echo
\* delay; the arithmetic on them is the code's.
FrameRates == {16, 32}

\* Raw sample values (int16 units).
SampleValues == {-1, 1}

---------------------------------------------------------------------------
(* AudioConfig and its validation *)

\* AudioConfig(): the dataclass defaults 0.5 Hz, 0.95, 50 ms, 0.3.
DefaultConfig == [pan_speed |-> 5, depth |-> 95, reverb_delay |-> 50, reverb_decay |-> 3]

ErrPanSpeed == "Pan speed must be between 0 and 2 Hz"
ErrDepth == "Depth must be between 0 and 1"
ErrReverbDelay == "Reverb delay must be between 0 and 100 ms"
ErrReverbDecay == "Reverb decay must be between 0 and 1"
ErrFfmpeg == "ffmpeg not found"

ValidationErrors == {ErrPanSpeed, ErrDepth, ErrReverbDelay, ErrReverbDecay}

\* _validate_config with the lower bound of pan_speed made inclusive.
ValidateConfigInclusive(c) ==
    IF ~(0 <= c.pan_speed /\ c.pan_speed <= 20) THEN ErrPanSpeed
    ELSE IF ~(0 <= c.depth /\ c.depth <= 100) THEN ErrDepth
    ELSE IF ~(0 < c.reverb_delay /\ c.reverb_delay <= 100) THEN ErrReverbDelay
    ELSE IF ~(0 <= c.reverb_decay /\ c.reverb_decay <= 10) THEN ErrReverbDecay
    ELSE ""

\* _validate_config: the message of the ValueError raised, "" when none is.
ValidateConfig(c) ==
    IF ~(0 < c.pan_speed /\ c.pan_speed <= 20) THEN ErrPanSpeed
    ELSE IF ~(0 <= c.depth /\ c.depth <= 100) THEN ErrDepth
    ELSE IF ~(0 < c.reverb_delay /\ c.reverb_delay <= 100) THEN ErrReverbDelay
    ELSE IF ~(0 <= c.reverb_decay /\ c.reverb_decay <= 10) THEN ErrReverbDecay
    ELSE ""

---------------------------------------------------------------------------
(* Decoded inputs *)

\* Channel counts pydub may report for a decoded file.
Channels == {1, 2, 3}

Silence(len) == [i \in 1..len |-> 0]
Constant(len, v) == [i \in 1..len |-> v]
Impulse(len, k, v) == [i \in 1..len |-> IF i = k THEN v ELSE 0]

\* The interleaved sample arrays of length len the model feeds in: silence,
\* a constant level, or one nonzero sample.
Buffers(len) ==
    {Silence(len)}
        \cup {Constant(len, v) : v \in SampleValues}
        \cup {Impulse(len, k, v) : k \in 1..len, v \in SampleValues}

\* AudioSegment.from_mp3(input_path): channels, frame_rate and the flat,
\* channel-interleaved get_array_of_samples().
Audios ==
    UNION {{[channels |-> c, frame_rate |-> r, samples |-> s] :
                s \in Buffers(c * n)} :
           c \in Channels, r \in FrameRates, n \in 0..MaxFrames}

\* What os.path.exists / endswith('.mp3') find at input_path.
Paths == {"missing", "not_mp3", "mp3"}

---------------------------------------------------------------------------
(* numpy arrays: [shape, data]; data is a sequence of numbers (1-D) or of   *)
(* rows (2-D).  Stage results are [err, arr].                              *)

ErrNotFound == "Input file not found"
ErrNotMp3 == "Input file must be an MP3 file"
ErrReshape == "cannot reshape array into shape (2)"
ErrChannelIndex == "index 1 is out of bounds for axis 1 with size 1"
ErrImpulseIndex == "index 0 is out of bounds for axis 0 with size 0"
ErrConvolveEmpty == "v cannot be empty"
ErrMaxEmpty == "zero-size array to reduction operation maximum which has no identity"

NoArray == [shape |-> <<0>>, data |-> <<>>]
Ok(arr) == [err |-> "", arr |-> arr]
Raise(msg) == [err |-> msg, arr |-> NoArray]

Abs(x) == IF x < 0 THEN -x ELSE x

RECURSIVE SumTo(_, _)
\* f(1) + ... + f(n)
SumTo(f, n) == IF n = 0 THEN 0 ELSE f[n] + SumTo(f, n - 1)

RECURSIVE MaxOf(_)
\* Largest element of a non-empty finite set of integers.
MaxOf(S) ==
    LET x == CHOOSE y \in S : TRUE
    IN IF S = {x} THEN x
       ELSE LET m == MaxOf(S \ {x}) IN IF x > m THEN x ELSE m

\* samples.reshape(-1, 1) for mono, samples.reshape(-1, 2) otherwise.
Reshape(a) ==
    LET w == IF a.channels = 1 THEN 1 ELSE 2
        len == Len(a.samples)
    IN IF len % w # 0 THEN Raise(ErrReshape)
       ELSE Ok([shape |-> <<len \div w, w>>,
                data |-> [i \in 1..(len \div w) |->
                             [j \in 1..w |-> a.samples[(i - 1) * w + j]]]])

\* np.sin on whole degrees, in hundredths (Bhaskara's rational form: exact
\* at 0, 30, 90, 150, 180 degrees and their mirror images).
Sin100(deg) ==
    LET d == deg % 360
        h == IF d <= 180 THEN d ELSE d - 180
        v == (400 * h * (180 - h)) \div (40500 - h * (180 - h))
    IN IF d <= 180 THEN v ELSE -v

\* pan_curve[i] (i counted from 0), in 1/10000:
\* t = np.linspace(0, n / sample_rate, n); sin(2 pi pan_speed t[i]) * depth.
\* The angle 360 * pan_speed * t[i] is cut to whole degrees; the sine is
\* +-1 only at an exact quarter turn, so a cut angle is kept below it.
PanCurve(i, n, sample_rate, c) ==
    LET num == 36 * c.pan_speed * i * n
        den == sample_rate * (n - 1)
        deg == IF n = 1 THEN 0 ELSE num \div den
        exact == n = 1 \/ num % den = 0
        s == Sin100(deg)
        sine == IF exact \/ Abs(s) < 100 THEN s
                ELSE IF s > 0 THEN 99 ELSE -99
    IN sine * c.depth

\* _apply_panning.  Result in 1/10000 of the input unit.
ApplyPanning(arr, sample_rate, c) ==
    LET n == arr.shape[1]
        stereo == IF Len(arr.shape) = 1
                  THEN [shape |-> <<n, 2>>,
                        data |-> [i \in 1..n |-> <<arr.data[i], arr.data[i]>>]]
                  ELSE arr
    IN IF stereo.shape[2] < 2 THEN Raise(ErrChannelIndex)
       ELSE Ok([shape |-> <<n, 2>>,
                data |-> [i \in 1..n |->
                    <<stereo.data[i][1] * (10000 + PanCurve(i - 1, n, sample_rate, c)),
                      stereo.data[i][2] * (10000 - PanCurve(i - 1, n, sample_rate, c))>>]])

\* int(reverb_delay * sample_rate / 1000)
DelaySamples(sample_rate, c) == (c.reverb_delay * sample_rate) \div 1000

\* ir = np.zeros(d); ir[0] = 1; ir[d-1] = decay   (taps in tenths, d >= 1)
ImpulseResponse(d, c) ==
    [k \in 1..d |-> IF k = d THEN c.reverb_decay ELSE IF k = 1 THEN 10 ELSE 0]

\* lfilter(ir, [1], x)[i]: the causal FIR sum over the taps that reach back
\* no further than the first sample (i counted from 1).
LFilter(ir, x, i) ==
    LET reach == IF Len(ir) < i THEN Len(ir) ELSE i
    IN SumTo([k \in 1..reach |-> ir[k] * x[i - k + 1]], reach)

\* _apply_reverb.  Result in 1/20 of the input unit: x + 0.5 * reverb.
\* lfilterRaises: whether the installed scipy's lfilter raises on a
\* zero-length signal (its np.convolve path does) or returns it.
ApplyReverb(arr, sample_rate, c, lfilterRaises) ==
    LET d == DelaySamples(sample_rate, c)
        n == arr.shape[1]
        ir == ImpulseResponse(d, c)
        chan(j) == [i \in 1..n |-> arr.data[i][j]]
    IN IF d < 1 THEN Raise(ErrImpulseIndex)
       ELSE IF n = 0 /\ lfilterRaises THEN Raise(ErrConvolveEmpty)
       ELSE Ok([shape |-> arr.shape,
                data |-> [i \in 1..n |->
                    [j \in 1..arr.shape[2] |->
                        20 * arr.data[i][j] + LFilter(ir, chan(j), i)]]])

\* np.max(np.abs(audio_data)) of a non-empty 2-D array
Peak(arr) ==
    MaxOf({Abs(arr.data[i][j]) : i \in 1..arr.shape[1], j \in 1..arr.shape[2]})

\* audio_data / np.max(np.abs(audio_data)): every sample becomes the
\* fraction sample/peak; with peak 0 that is 0.0/0.0, numpy's NaN.
Normalize(arr) ==
    IF arr.shape[1] * arr.shape[2] = 0 THEN Raise(ErrMaxEmpty)
    ELSE Ok([shape |-> arr.shape,
             data |-> [i \in 1..arr.shape[1] |->
                 [j \in 1..arr.shape[2] |->
                     [num |-> arr.data[i][j], den |-> Peak(arr)]]]])

IsNaN(x) == x.den = 0

\* floor(n * 32767 / d) for 0 <= n <= d, without leaving 32 bits
\* (32767 = 127 * 258 + 1).
Scale16(n, d) ==
    LET qa == (n * 127) \div d
        ra == (n * 127) % d
    IN qa * 258 + (ra * 258 + n) \div d

\* (x * 32767).astype(np.int16): truncation toward zero; the cast of NaN is
\* undefined and yields nanCast.
ToInt16(x, nanCast) ==
    IF IsNaN(x) THEN nanCast
    ELSE IF x.num < 0 THEN -Scale16(-x.num, x.den)
    ELSE Scale16(x.num, x.den)

\* What the build's float-to-int16 conversion makes of NaN.
NaNCasts == {0, -32768}

Quantize(arr, nanCast) ==
    [shape |-> arr.shape,
     data |-> [i \in 1..arr.shape[1] |->
         [j \in 1..arr.shape[2] |-> ToInt16(arr.data[i][j], nanCast)]]]

---------------------------------------------------------------------------
(* The converter *)

NoAudio == [channels |-> 0, frame_rate |-> 0, samples |-> <<>>]

\* Audio8DConverter.__init__(config): stores the config (AudioConfig() when
\* none is given), validates it, then looks for ffmpeg.  An exception leaves
\* the caller without a converter.  The model follows one converter: the
\* client constructs until a constructor returns, then uses that object.
Construct(c, ffmpegFound) ==
    /\ UNCHANGED wvars
    /\ pc = "idle"
    /\ converter = "none"
    /\ op' = "__init__"
    /\ config' = c
    /\ err' = IF ValidateConfig(c) # "" THEN ValidateConfig(c)
              ELSE IF ~ffmpegFound THEN ErrFfmpeg
              ELSE ""
    /\ converter' = IF err' = "" THEN "ready" ELSE "none"
    /\ UNCHANGED <<pc, audio, audio_data, output>>

\* converter.config.<field> = value: AudioConfig is a plain (unfrozen)
\* dataclass, so the assignment succeeds and nothing re-validates.
Assign(f, v) ==
    /\ UNCHANGED wvars
    /\ pc = "idle"
    /\ converter = "ready"
    /\ config[f] # v
    /\ op' = "setattr"
    /\ config' = [config EXCEPT ![f] = v]
    /\ err' = ""
    /\ UNCHANGED <<converter, pc, audio, audio_data, output>>

\* convert_file, up to the float conversion: the path checks, the decode,
\* the reshape by audio.channels and the division by the int16 maximum
\* (which only changes the unit).
ConvertFile(path, a) ==
    /\ UNCHANGED wvars
    /\ pc = "idle"
    /\ converter = "ready"
    /\ op' = "convert_file"
    /\ output' = "none"
    /\ IF path = "missing"
         THEN /\ err' = ErrNotFound
              /\ pc' = "failed"
              /\ UNCHANGED <<audio, audio_data>>
       ELSE IF path = "not_mp3"
         THEN /\ err' = ErrNotMp3
              /\ pc' = "failed"
              /\ UNCHANGED <<audio, audio_data>>
       ELSE /\ audio' = a
            /\ err' = Reshape(a).err
            /\ pc' = IF Reshape(a).err = "" THEN "loaded" ELSE "failed"
            /\ audio_data' = Reshape(a).arr
    /\ UNCHANGED <<config, converter>>

\* audio_data = self._apply_panning(audio_data, audio.frame_rate)
Panning ==
    /\ UNCHANGED wvars
    /\ pc = "loaded"
    /\ LET r == ApplyPanning(audio_data, audio.frame_rate, config)
       IN /\ err' = r.err
          /\ pc' = IF r.err = "" THEN "panned" ELSE "failed"
          /\ audio_data' = r.arr
    /\ UNCHANGED <<config, converter, op, audio, output>>

\* audio_data = self._apply_reverb(audio_data, audio.frame_rate)
Reverb(lfilterRaises) ==
    /\ UNCHANGED wvars
    /\ pc = "panned"
    /\ LET r == ApplyReverb(audio_data, audio.frame_rate, config, lfilterRaises)
       IN /\ err' = r.err
          /\ pc' = IF r.err = "" THEN "reverbed" ELSE "failed"
          /\ audio_data' = r.arr
    /\ UNCHANGED <<config, converter, op, audio, output>>

\* audio_data = audio_data / np.max(np.abs(audio_data))
Normalise ==
    /\ UNCHANGED wvars
    /\ pc = "reverbed"
    /\ LET r == Normalize(audio_data)
       IN /\ err' = r.err
          /\ pc' = IF r.err = "" THEN "normalised" ELSE "failed"
          /\ audio_data' = r.arr
    /\ UNCHANGED <<config, converter, op, audio, output>>

\* audio_data = (audio_data * 32767).astype(np.int16)
Quantise(nanCast) ==
    /\ UNCHANGED wvars
    /\ pc = "normalised"
    /\ audio_data' = Quantize(audio_data, nanCast)
    /\ pc' = "quantised"
    /\ UNCHANGED <<config, converter, op, audio, output, err>>

\* The WAV is written (2 channels, 16 bit), exported as MP3 to output_path,
\* and convert_file returns True.
Export ==
    /\ UNCHANGED wvars
    /\ pc = "quantised"
    /\ output' = audio_data.data
    /\ pc' = "done"
    /\ UNCHANGED <<config, converter, op, audio, audio_data, err>>

\* The call is over (returned or raised): its locals are gone and the
\* client is free to make the next call.
Return ==
    /\ UNCHANGED wvars
    /\ pc \in {"done", "failed"}
    /\ pc' = "idle"
    /\ op' = ""
    /\ audio' = NoAudio
    /\ audio_data' = NoArray
    /\ output' = "none"
    /\ err' = ""
    /\ UNCHANGED <<config, converter>>

Next ==
    \/ \E c \in Configs \cup {DefaultConfig}, found \in BOOLEAN :
            Construct(c, found)
    \/ \E v \in PanSpeeds : Assign("pan_speed", v)
    \/ \E v \in Depths : Assign("depth", v)
    \/ \E v \in ReverbDelays : Assign("reverb_delay", v)
    \/ \E v \in ReverbDecays : Assign("reverb_decay", v)
    \/ \E path \in Paths, a \in Audios : ConvertFile(path, a)
    \/ Panning
    \/ \E raises \in BOOLEAN : Reverb(raises)
    \/ Normalise
    \/ \E nanCast \in NaNCasts : Quantise(nanCast)
    \/ Export
    \/ Return

---------------------------------------------------------------------------
(* The /convert handler (src/app.py), one thread per request *)

\* Concurrent requests.
NumRequests == 2

\* Seconds the clock may advance while they run.
MaxClock == 1

Requests == 1..NumRequests

\* Uploaded file names, as [stem, ext]; NoFilePart: the form has no 'file'.
NoFilePart == [stem |-> "", ext |-> "-"]
FileNames ==
    {NoFilePart,
     [stem |-> "", ext |-> ""],
     [stem |-> "a", ext |-> "mp3"],
     [stem |-> "a b", ext |-> "MP3"],
     [stem |-> "a_b", ext |-> "mp3"],
     [stem |-> "a", ext |-> "wav"]}

Lower(ext) == IF ext = "MP3" THEN "mp3" ELSE ext

\* allowed_file: '.' in filename and the lowered extension is in
\* ALLOWED_EXTENSIONS.
AllowedFile(f) == f.ext # "" /\ Lower(f.ext) \in {"mp3"}

\* os.path.splitext(secure_filename(name))[0]: a space becomes '_'.
BaseFilename(f) == IF f.stem = "a b" THEN "a_b" ELSE f.stem

Stems == {"a", "a_b"}

\* f"{base_filename}_{timestamp}.mp3" and f"{base_filename}_{timestamp}_8d.mp3"
WebPaths == Stems \X (0..MaxClock)

Absent == [owner |-> 0]

\* The MP3 request r uploads: a stereo file that differs per request.
UploadOf(r) ==
    [owner |-> r,
     audio |-> [channels |-> 2, frame_rate |-> 32,
                samples |-> Impulse(2 * 2, ((r - 1) % 4) + 1, 1)]]

\* The form values of a request: two valid settings and one that fails
\* validation.
Forms ==
    {[pan_speed |-> 5, depth |-> 100, reverb_delay |-> 50, reverb_decay |-> 3],
     [pan_speed |-> 20, depth |-> 0, reverb_delay |-> 100, reverb_decay |-> 10],
     [pan_speed |-> 21, depth |-> 100, reverb_delay |-> 50, reverb_decay |-> 3]}

\* convert_file on a decoded input, start to end: [err, arr].
Pipeline(a, c, lfilterRaises, nanCast) ==
    LET loaded == Reshape(a)
        panned == ApplyPanning(loaded.arr, a.frame_rate, c)
        reverbed == ApplyReverb(panned.arr, a.frame_rate, c, lfilterRaises)
        normalised == Normalize(reverbed.arr)
    IN IF loaded.err # "" THEN loaded
       ELSE IF panned.err # "" THEN panned
       ELSE IF reverbed.err # "" THEN reverbed
       ELSE IF normalised.err # "" THEN normalised
       ELSE Ok(Quantize(normalised.arr, nanCast))

NoRequest ==
    [at |-> "new", path |-> <<"", 0>>, form |-> DefaultConfig, read |-> Absent]
NoResponse == [status |-> 0, body |-> "", of |-> Absent, with |-> DefaultConfig]
Error(status, msg) == [status |-> status, body |-> msg, of |-> Absent, with |-> DefaultConfig]

Init ==
    /\ config = DefaultConfig
    /\ converter = "none"
    /\ op = ""
    /\ pc = "idle"
    /\ audio = NoAudio
    /\ audio_data = NoArray
    /\ output = "none"
    /\ err = ""
    /\ clock = 0
    /\ uploads = [p \in WebPaths |-> Absent]
    /\ processed = [p \in WebPaths |-> Absent]
    /\ req = [r \in Requests |-> NoRequest]
    /\ response = [r \in Requests |-> NoResponse]

\* datetime.now() moves on.
Tick ==
    /\ UNCHANGED vars
    /\ clock < MaxClock
    /\ clock' = clock + 1
    /\ UNCHANGED <<uploads, processed, req, response>>

\* convert_audio, lines 104-124: the three 400 checks, then the timestamp
\* and the two paths.
Receive(r, f, form) ==
    /\ UNCHANGED vars
    /\ req[r].at = "new"
    /\ IF f = NoFilePart
         THEN /\ response' = [response EXCEPT ![r] = Error(400, "No file uploaded")]
              /\ req' = [req EXCEPT ![r].at = "answered"]
       ELSE IF f.stem = "" /\ f.ext = ""
         THEN /\ response' = [response EXCEPT ![r] = Error(400, "No file selected")]
              /\ req' = [req EXCEPT ![r].at = "answered"]
       ELSE IF ~AllowedFile(f)
         THEN /\ response' = [response EXCEPT ![r] = Error(400, "Invalid file type")]
              /\ req' = [req EXCEPT ![r].at = "answered"]
       ELSE /\ req' = [req EXCEPT ![r] =
                          [at |-> "named", path |-> <<BaseFilename(f), clock>>,
                           form |-> form, read |-> Absent]]
            /\ UNCHANGED response
    /\ UNCHANGED <<clock, uploads, processed>>

\* file.save(input_path)
Save(r) ==
    /\ UNCHANGED vars
    /\ req[r].at = "named"
    /\ uploads' = [uploads EXCEPT ![req[r].path] = UploadOf(r)]
    /\ req' = [req EXCEPT ![r].at = "saved"]
    /\ UNCHANGED <<clock, processed, response>>

\* config = AudioConfig(...); converter = Audio8DConverter(config).  The
\* constructor's ValueError or RuntimeError is answered with 500 by the
\* handler's except clause.  (Form values are numeric here: float() and
\* int() do not raise.)
Configure(r, ffmpegFound) ==
    /\ UNCHANGED vars
    /\ req[r].at = "saved"
    /\ IF ValidateConfig(req[r].form) # ""
         THEN /\ response' = [response EXCEPT
                                 ![r] = Error(500, ValidateConfig(req[r].form))]
              /\ req' = [req EXCEPT ![r].at = "answered"]
       ELSE IF ~ffmpegFound
         THEN /\ response' = [response EXCEPT ![r] = Error(500, ErrFfmpeg)]
              /\ req' = [req EXCEPT ![r].at = "answered"]
       ELSE /\ req' = [req EXCEPT ![r].at = "configured"]
            /\ UNCHANGED response
    /\ UNCHANGED <<clock, uploads, processed>>

\* convert_file, lines 106-130: the existence check and the decode of
\* whatever is at input_path now.
Decode(r) ==
    /\ UNCHANGED vars
    /\ req[r].at = "configured"
    /\ IF uploads[req[r].path] = Absent
         THEN /\ response' = [response EXCEPT ![r] = Error(500, ErrNotFound)]
              /\ req' = [req EXCEPT ![r].at = "answered"]
       ELSE /\ req' = [req EXCEPT ![r].at = "decoded",
                                  ![r].read = uploads[req[r].path]]
            /\ UNCHANGED response
    /\ UNCHANGED <<clock, uploads, processed>>

\* convert_file, lines 132-161: the effects, then the export to output_path.
Encode(r, lfilterRaises, nanCast) ==
    /\ UNCHANGED vars
    /\ req[r].at = "decoded"
    /\ LET out == Pipeline(req[r].read.audio, req[r].form, lfilterRaises, nanCast)
       IN IF out.err # ""
            THEN /\ response' = [response EXCEPT ![r] = Error(500, out.err)]
                 /\ req' = [req EXCEPT ![r].at = "answered"]
                 /\ UNCHANGED processed
          ELSE /\ processed' = [processed EXCEPT ![req[r].path] =
                                   [owner |-> r, of |-> req[r].read,
                                    with |-> req[r].form, frames |-> out.arr.data]]
               /\ req' = [req EXCEPT ![r].at = "converted"]
               /\ UNCHANGED response
    /\ UNCHANGED <<clock, uploads>>

\* os.remove(input_path)
Remove(r) ==
    /\ UNCHANGED vars
    /\ req[r].at = "converted"
    /\ IF uploads[req[r].path] = Absent
         THEN /\ response' = [response EXCEPT ![r] = Error(500, ErrNotFound)]
              /\ req' = [req EXCEPT ![r].at = "answered"]
              /\ UNCHANGED uploads
       ELSE /\ uploads' = [uploads EXCEPT ![req[r].path] = Absent]
            /\ req' = [req EXCEPT ![r].at = "removed"]
            /\ UNCHANGED response
    /\ UNCHANGED <<clock, processed>>

\* send_file(output_path, ...): the client receives what is there now.
Send(r) ==
    /\ UNCHANGED vars
    /\ req[r].at = "removed"
    /\ response' = [response EXCEPT ![r] =
                       [status |-> 200,
                        body |-> processed[req[r].path].frames,
                        of |-> processed[req[r].path].of,
                        with |-> processed[req[r].path].with]]
    /\ req' = [req EXCEPT ![r].at = "answered"]
    /\ UNCHANGED <<clock, uploads, processed>>

WebNext ==
    \/ Tick
    \/ \E r \in Requests, f \in FileNames, form \in Forms : Receive(r, f, form)
    \/ \E r \in Requests : Save(r)
    \/ \E r \in Requests, found \in BOOLEAN : Configure(r, found)
    \/ \E r \in Requests : Decode(r)
    \/ \E r \in Requests, raises \in BOOLEAN, nanCast \in NaNCasts :
            Encode(r, raises, nanCast)
    \/ \E r \in Requests : Remove(r)
    \/ \E r \in Requests : Send(r)

\* The converter used as a library; the web service is not running.
Spec == Init /\ [][Next]_<<vars, wvars>>

\* The configuration alone: converters are constructed and their
\* configurations assigned to, no file is converted.
ConfigNext ==
    \/ \E c \in Configs \cup {DefaultConfig}, found \in BOOLEAN :
            Construct(c, found)
    \/ \E v \in PanSpeeds : Assign("pan_speed", v)
    \/ \E v \in Depths : Assign("depth", v)
    \/ \E v \in ReverbDelays : Assign("reverb_delay", v)
    \/ \E v \in ReverbDecays : Assign("reverb_decay", v)

SpecConfig == Init /\ [][ConfigNext]_<<vars, wvars>>

\* The web service; each request builds a converter of its own inside
\* Configure .. Encode, so the library client's converter stays untouched.
SpecWeb == Init /\ [][WebNext]_<<vars, wvars>>

---------------------------------------------------------------------------
(* The stated ranges and pipeline facts the properties are phrased in *)

\* The four range constraints, as the specification states them.
InRange(c) ==
    /\ c.pan_speed > 0 /\ c.pan_speed <= 20
    /\ c.depth >= 0 /\ c.depth <= 100
    /\ c.reverb_delay > 0 /\ c.reverb_delay <= 100
    /\ c.reverb_decay >= 0 /\ c.reverb_decay <= 10

FieldInRange(c, f) ==
    CASE f = "pan_speed" -> c.pan_speed > 0 /\ c.pan_speed <= 20
      [] f = "depth" -> c.depth >= 0 /\ c.depth <= 100
      [] f = "reverb_delay" -> c.reverb_delay > 0 /\ c.reverb_delay <= 100
      [] f = "reverb_decay" -> c.reverb_decay >= 0 /\ c.reverb_decay <= 10

CheckOrder == <<"pan_speed", "depth", "reverb_delay", "reverb_decay">>

ErrorNaming(f) ==
    CASE f = "pan_speed" -> ErrPanSpeed
      [] f = "depth" -> ErrDepth
      [] f = "reverb_delay" -> ErrReverbDelay
      [] f = "reverb_decay" -> ErrReverbDecay

\* The first parameter of CheckOrder that is out of range (c is not InRange).
FirstOutOfRange(c) ==
    LET k == CHOOSE i \in 1..4 :
                 /\ ~FieldInRange(c, CheckOrder[i])
                 /\ \A j \in 1..(i - 1) : FieldInRange(c, CheckOrder[j])
    IN CheckOrder[k]

\* A convert_file call is under way (or just ended) on a decoded input.
InCall == audio # NoAudio

\* The stages of the current call that have completed.
PastPanning == pc \in {"panned", "reverbed", "normalised", "quantised", "done"}

\* The panned buffer of the current call, recomputed from its input.
PannedInput == ApplyPanning(Reshape(audio).arr, audio.frame_rate, config)

Cells(arr) == {<<i, j>> : i \in 1..arr.shape[1], j \in 1..arr.shape[2]}

---------------------------------------------------------------------------
(* Properties *)

\* C1: constructing a converter validates the configuration; validation
\* succeeds exactly when all four parameters are in range, and otherwise
\* the error names the first out-of-range parameter in the order pan_speed,
\* depth, reverb_delay, reverb_decay, however many are out of range.
C1_ValidationNamesFirstViolation ==
    op = "__init__" =>
        /\ (err \notin ValidationErrors) <=> InRange(config)
        /\ ~InRange(config) => err = ErrorNaming(FirstOutOfRange(config))

\* C1 witness: two parameters out of range at once (depth and reverb_decay),
\* and the error names the earlier one.
C1_Witness ==
    /\ op = "__init__"
    /\ FieldInRange(config, "pan_speed")
    /\ ~FieldInRange(config, "depth")
    /\ FieldInRange(config, "reverb_delay")
    /\ ~FieldInRange(config, "reverb_decay")
    /\ err = ErrDepth

\* C2: the panning and reverb stages only ever run while the converter's
\* configuration satisfies all four range constraints.
C2_StagesRunOnValidConfig ==
    (PastPanning /\ audio.samples # <<>>) => InRange(config)

\* C3: a post-reverb buffer with peak zero is returned unchanged by the
\* normalisation (all samples stay 0, none becomes NaN), and an all-zero
\* input under a valid configuration gives an all-zero output.
C3_SilencePreserved ==
    /\ (pc = "normalised" /\ InRange(config)
            /\ \A x \in Cells(audio_data) : audio_data.data[x[1]][x[2]].num = 0)
        => \A x \in Cells(audio_data) : ~IsNaN(audio_data.data[x[1]][x[2]])
    /\ (pc = "done" /\ InRange(config)
            /\ \A k \in 1..Len(audio.samples) : audio.samples[k] = 0)
        => \A x \in Cells(audio_data) : output[x[1]][x[2]] = 0

\* C4: for a mono or stereo input with a nonzero sample and a valid
\* configuration, the normalised buffer has every sample in [-1, 1] and
\* its largest absolute sample is exactly 1.
C4_PeakIsOne ==
    (/\ pc = "normalised"
     /\ InRange(config)
     /\ audio.channels \in {1, 2}
     /\ \E k \in 1..Len(audio.samples) : audio.samples[k] # 0)
    => /\ \A x \in Cells(audio_data) :
            LET v == audio_data.data[x[1]][x[2]]
            IN ~IsNaN(v) /\ Abs(v.num) <= v.den
       /\ \E x \in Cells(audio_data) :
            LET v == audio_data.data[x[1]][x[2]]
            IN ~IsNaN(v) /\ Abs(v.num) = v.den

\* C5: a mono input of N frames goes through the panning stage without an
\* error and leaves it as N stereo frames with left = x(1+p), right =
\* x(1-p), hence left + right = 2x.
C5_MonoUpmix ==
    (InCall /\ audio.channels = 1 /\ audio.samples # <<>> /\ pc # "loaded")
    => /\ err # ErrChannelIndex
       /\ pc = "panned" =>
            /\ audio_data.shape = <<Len(audio.samples), 2>>
            /\ \A i \in 1..Len(audio.samples) :
                 audio_data.data[i][1] + audio_data.data[i][2]
                     = 2 * 10000 * audio.samples[i]

\* C6: an input whose channel count is neither 1 nor 2 is never processed
\* as a stereo signal: the call fails, no later than the panning stage.
C6_OtherLayoutsRejected ==
    (InCall /\ audio.channels \notin {1, 2} /\ audio.samples # <<>>)
    => pc \in {"loaded", "failed"}

\* C7: when delay_samples is below 1 for a validated configuration, the
\* reverb stage is the identity and raises nothing.
C7_ZeroDelayIsIdentity ==
    (/\ InCall
     /\ InRange(config)
     /\ Reshape(audio).err = ""
     /\ PannedInput.err = ""
     /\ audio.samples # <<>>
     /\ DelaySamples(audio.frame_rate, config) < 1
     /\ pc \notin {"loaded", "panned"})
    => /\ pc # "failed"
       /\ pc = "reverbed" => audio_data = PannedInput.arr

\* C8: for delay_samples d >= 1 the reverb output is
\* x[i] + 0.5 * (1.0 * x[i] + reverb_decay * x[i - d]) per channel: the
\* delayed copy first contributes at index d.
C8_EchoAtDelaySamples ==
    (pc = "reverbed" /\ InRange(config))
    => LET d == DelaySamples(audio.frame_rate, config)
           x == PannedInput.arr.data
       IN \A c \in Cells(audio_data) :
            audio_data.data[c[1]][c[2]]
                = 20 * x[c[1]][c[2]] + 10 * x[c[1]][c[2]]
                    + (IF c[1] > d THEN config.reverb_decay * x[c[1] - d][c[2]]
                       ELSE 0)

\* C9: an input with zero frames is refused before any stage has processed
\* it; in particular the normalisation never takes a maximum over it.
C9_EmptyBufferRejected ==
    (InCall /\ audio.samples = <<>>)
    => /\ ~PastPanning
       /\ err # ErrMaxEmpty


\* C10: under any interleaving of concurrent /convert requests, a request
\* decodes only its own upload, and the file a client receives is the
\* conversion of that client's upload with that client's parameters.
C10_RequestsIsolated ==
    \A r \in Requests :
        /\ req[r].read # Absent => req[r].read = UploadOf(r)
        /\ response[r].status = 200 =>
             /\ response[r].of = UploadOf(r)
             /\ response[r].with = req[r].form

====
